---- MODULE Spec2Model ----
(***************************************************************************)
(* Life-Cycle-Management-Proxy for ETSI MEC edge applications.             *)
(* The Application-Context store (appcontextserver.rs) and the message     *)
(* validation it relies on (messages.rs), as a state machine.              *)
(***************************************************************************)
EXTENDS Integers, Sequences, FiniteSets, TLC

(***************************************************************************)
(* Bounds of the model.                                                    *)
(***************************************************************************)
\* Largest max_contexts a store is constructed with.
MaxContexts == 2
\* Number of successful creations explored in one behaviour.
MaxCreations == 3

(***************************************************************************)
(* Option<T>: None is the empty set, Some(x) the singleton {x}.            *)
(***************************************************************************)
None == {}
Some(x) == {x}
IsSome(o) == o # {}
IsNone(o) == o = {}
Unwrap(o) == CHOOSE x \in o : TRUE

(***************************************************************************)
(* Result<(), String>.                                                     *)
(***************************************************************************)
Ok == [ok |-> TRUE, err |-> ""]
Err(e) == [ok |-> FALSE, err |-> e]

(***************************************************************************)
(* Strings used as inputs.  A string is a TLA+ string, its length is Len.  *)
(***************************************************************************)
Long33 == "xxxxxxxxxxxxxxxxxxxxxxxxxxxxxxxxx"
Long129 == "yyyyyyyyyyyyyyyyyyyyyyyyyyyyyyyyyyyyyyyyyyyyyyyyyyyyyyyyyyyyyyyyyyyyyyyyyyyyyyyyyyyyyyyyyyyyyyyyyyyyyyyyyyyyyyyyyyyyyyyyyyyyyyyyy"

\* The 32-character rendering of the n-th identifier drawn from Uuid::new_v4
\* (Uuid::simple prints 32 hexadecimal digits, no hyphens).
HexDigits == <<"1", "2", "3", "4", "5", "6", "7", "8", "9", "a", "b", "c", "d", "e", "f">>
UuidSimple(n) == "0000000000000000000000000000000" \o HexDigits[n]

(***************************************************************************)
(* messages.rs: validation.                                                *)
(***************************************************************************)
RECURSIVE Join(_, _)
Join(problems, sep) ==
  IF Len(problems) = 0 THEN ""
  ELSE IF Len(problems) = 1 THEN problems[1]
  ELSE problems[1] \o sep \o Join(Tail(problems), sep)

check(problems) ==
  IF Len(problems) = 0 THEN Ok ELSE Err(Join(problems, ";"))

\* add_problem: the list of problems after validating one more item.
add_problem(result, problems) ==
  IF result.ok THEN problems ELSE Append(problems, result.err)

\* The first error of a sequence of results, Ok when there is none.
RECURSIVE FirstErr(_)
FirstErr(results) ==
  IF Len(results) = 0 THEN Ok
  ELSE IF ~results[1].ok THEN results[1]
  ELSE FirstErr(Tail(results))

ValidatePolygon(p) ==
  IF \E i \in 1..Len(p.coordinates) :
       \E j \in 1..Len(p.coordinates[i]) : Len(p.coordinates[i][j]) # 2
  THEN Err("each point must be identified by two values")
  ELSE Ok

ValidateCivicAddressElement(c) ==
  IF c.caValue = "" THEN Err("Empty caValue in civicAddressElement") ELSE Ok

ValidateLocationConstraints(l) ==
  IF IsSome(l.area)
  THEN IF IsSome(l.countryCode) \/ Len(l.civicAddressElement) # 0
       THEN Err("countryCode and civicAddressElement must be empty with area")
       ELSE ValidatePolygon(Unwrap(l.area))
  ELSE IF IsNone(l.countryCode) \/ l.countryCode = Some("")
       THEN Err("Empty countryCode in LocalConstraints")
       ELSE IF Len(l.civicAddressElement) = 0
       THEN Err("Empty civicAddressElement in LocalConstraints")
       ELSE FirstErr([i \in 1..Len(l.civicAddressElement) |->
                        ValidateCivicAddressElement(l.civicAddressElement[i])])

ValidateUserAppInstanceInfo(u) ==
  IF IsSome(u.appLocation)
  THEN ValidateLocationConstraints(Unwrap(u.appLocation))
  ELSE Ok

RECURSIVE AddProblems(_, _)
AddProblems(results, problems) ==
  IF Len(results) = 0 THEN problems
  ELSE AddProblems(Tail(results), add_problem(results[1], problems))

ValidateAppInfoContext(a) ==
  LET p1 == IF Len(a.appName) > 32 THEN <<"appName is too long">> ELSE <<>>
      p2 == IF Len(a.appProvider) > 32
            THEN Append(p1, "appProvider is too long") ELSE p1
      p3 == IF IsSome(a.appSoftVersion) /\ Len(Unwrap(a.appSoftVersion)) > 32
            THEN Append(p2, "appSoftVersion is too long") ELSE p2
      p4 == IF IsSome(a.appDescription) /\ Len(Unwrap(a.appDescription)) > 128
            THEN Append(p3, "appDescription is too long") ELSE p3
      p5 == AddProblems([i \in 1..Len(a.userAppInstanceInfo) |->
                           ValidateUserAppInstanceInfo(a.userAppInstanceInfo[i])], p4)
  IN check(p5)

\* impl Validate for AppCharcs.
ValidateAppCharcs(a) ==
  IF IsSome(a.serviceCont) /\ Unwrap(a.serviceCont) \notin {0, 1}
  THEN Err("invalid serviceCont value: " \o ToString(Unwrap(a.serviceCont)))
  ELSE Ok

\* The ceilings taken as reached by a value of just their length.
ValidateAppInfoList_ceilings_excluded(a) ==
  LET p1 == IF Len(a.appName) >= 32 THEN <<"appName is too long">> ELSE <<>>
      p2 == IF Len(a.appProvider) >= 32
            THEN Append(p1, "appProvider is too long") ELSE p1
      p3 == IF Len(a.appSoftVersion) >= 32
            THEN Append(p2, "appSoftVersion is too long") ELSE p2
      p4 == IF Len(a.appDescription) >= 128
            THEN Append(p3, "appDescription is too long") ELSE p3
      p5 == AddProblems([i \in 1..Len(a.appLocation) |->
                           ValidateLocationConstraints(a.appLocation[i])], p4)
      p6 == IF IsSome(a.appCharcs)
            THEN add_problem(ValidateAppCharcs(Unwrap(a.appCharcs)), p5) ELSE p5
  IN check(p6)

\* impl Validate for AppInfoList.
ValidateAppInfoList(a) ==
  LET p1 == IF Len(a.appName) > 32 THEN <<"appName is too long">> ELSE <<>>
      p2 == IF Len(a.appProvider) > 32
            THEN Append(p1, "appProvider is too long") ELSE p1
      p3 == IF Len(a.appSoftVersion) > 32
            THEN Append(p2, "appSoftVersion is too long") ELSE p2
      p4 == IF Len(a.appDescription) > 128
            THEN Append(p3, "appDescription is too long") ELSE p3
      p5 == AddProblems([i \in 1..Len(a.appLocation) |->
                           ValidateLocationConstraints(a.appLocation[i])], p4)
      p6 == IF IsSome(a.appCharcs)
            THEN add_problem(ValidateAppCharcs(Unwrap(a.appCharcs)), p5) ELSE p5
  IN check(p6)

ValidateAppContext(c) ==
  LET p1 == IF IsSome(c.contextId) /\ Len(Unwrap(c.contextId)) > 32
            THEN <<"contextId is too long">> ELSE <<>>
      p2 == IF Len(c.associateDevAppId) > 32
            THEN Append(p1, "associateDevAppId is too long") ELSE p1
      p3 == add_problem(ValidateAppInfoContext(c.appInfo), p2)
  IN check(p3)

valid_request_skip_context_id(c) ==
  IF ~ValidateAppContext(c).ok THEN ValidateAppContext(c)
  ELSE IF Len(c.appInfo.userAppInstanceInfo) # 0
  THEN Err("userAppInstanceInfo cannot be present in a request AppContext")
  ELSE Ok

valid_request(c) ==
  IF ~ValidateAppContext(c).ok THEN ValidateAppContext(c)
  ELSE IF IsSome(c.contextId)
  THEN Err("contextId cannot be present in a request AppContext")
  ELSE IF Len(c.appInfo.userAppInstanceInfo) # 0
  THEN Err("userAppInstanceInfo cannot be present in a request AppContext")
  ELSE Ok

(***************************************************************************)
(* appcontextserver.rs: SimpleAppContextServer.                            *)
(***************************************************************************)
VARIABLES
  max_contexts,             \* self.max_contexts
  reference_uri_default,    \* self.reference_uri_default: Option<String>
  reference_uri_by_appdid,  \* self.reference_uri_by_appdid: appDId -> URI
  app_contexts,             \* self.app_contexts: contextId -> AppContext
  uuid_count,               \* identifiers drawn from Uuid::new_v4 so far
  call,                     \* the last call: operation and arguments as passed
  ret                       \* what the last call returned, and the caller's
                            \* AppContext object (the &mut argument) after it

\* applicationlistserver.rs: StaticApplicationListServer, and the last query.
VARIABLES
  app_list,                 \* self.app_list: Option<ApplicationList>
  last_err,                 \* self.last_err: Option<String>
  info,                     \* the last query: Option<ApplicationListInfo>
  answer                    \* what the last query returned

\* bin/lcmp.rs: the HTTP handlers in flight and the Mutex around the LcmpServer.
VARIABLES
  handler,                  \* each worker's handler: position, request, response
  mutex                     \* the worker holding AppState.lcmp_server, 0 when free

list_vars == <<app_list, last_err, info, answer>>

handler_vars == <<handler, mutex>>

vars == <<max_contexts, reference_uri_default, reference_uri_by_appdid,
          app_contexts, uuid_count, call, ret, list_vars, handler_vars>>

conf == <<max_contexts, reference_uri_default, reference_uri_by_appdid>>

\* HashMap operations.
EmptyMap == <<>>
MapInsert(m, k, v) == [x \in DOMAIN m \cup {k} |-> IF x = k THEN v ELSE m[x]]
MapRemove(m, k) == [x \in DOMAIN m \ {k} |-> m[x]]
MapLen(m) == Cardinality(DOMAIN m)

\* &self of a SimpleAppContextServer.
Self ==
  [max_contexts |-> max_contexts,
   reference_uri_default |-> reference_uri_default,
   reference_uri_by_appdid |-> reference_uri_by_appdid,
   app_contexts |-> app_contexts]

default_empty(max, reference_uri) ==
  [max_contexts |-> max,
   reference_uri_default |-> Some(reference_uri),
   reference_uri_by_appdid |-> EmptyMap,
   app_contexts |-> EmptyMap]

appdid_empty(max, by_appdid) ==
  [max_contexts |-> max,
   reference_uri_default |-> None,
   reference_uri_by_appdid |-> by_appdid,
   app_contexts |-> EmptyMap]

\* Identifiers handed out again once their context is gone: the lowest draw
\* that names no stored context, and the draw after it.
new_v4_simple_recycled(self, n, k) ==
  LET free == {j \in 1..(n + 1) :
                 j % 2 = 1 /\ UuidSimple(j) \notin DOMAIN self.app_contexts}
  IN  UuidSimple((CHOOSE j \in free : \A i \in free : j <= i) + k - 1)

\* The hyphenated rendering of an identifier, 36 characters long.
new_v4_hyphenated(self, n, k) ==
  "00000000-0000-0000-0000-00000000000" \o HexDigits[n + k]

\* Uuid::simple(Uuid::new_v4()).to_string(): the k-th draw after n earlier ones.
\* Version-4 identifiers are taken to be pairwise distinct, so the draws of one
\* behaviour are named in the order they are made.
new_v4_simple_from_size(self, n, k) == UuidSimple(2 * MapLen(self.app_contexts) + k)

new_v4_simple(self, n, k) == UuidSimple(n + k)

\* A store taken as full as soon as it holds a context.
capacity_reached_when_not_empty(self) == MapLen(self.app_contexts) >= 1

capacity_reached_off_by_one(self) == MapLen(self.app_contexts) = self.max_contexts + 1

capacity_reached(self) == MapLen(self.app_contexts) = self.max_contexts

max_contexts_error(self) ==
  Err("Maximum number of active contexts reached " \o ToString(self.max_contexts))

\* The reference URI of a request: the table entry of its appDId, else the default.
find_reference_uri_default_only(self, appDId) ==
  self.reference_uri_default

find_reference_uri(self, appDId) ==
  LET by_appdid ==
        IF IsSome(appDId) /\ Unwrap(appDId) \in DOMAIN self.reference_uri_by_appdid
        THEN Some(self.reference_uri_by_appdid[Unwrap(appDId)])
        ELSE None
  IN IF IsNone(by_appdid) /\ IsSome(self.reference_uri_default)
     THEN Some(Unwrap(self.reference_uri_default))
     ELSE by_appdid

no_reference_uri_error(appDId) ==
  Err("It was not possible to find a matching reference URI for AppDId: "
        \o (IF IsSome(appDId) THEN Unwrap(appDId) ELSE "unspecified"))

\* Instance information that carries the same identifier for every context.
from_reference_uri_same_id(reference_uri, id) ==
  [appInstanceId |-> Some(UuidSimple(2)),
   referenceURI |-> Some(reference_uri),
   appLocation |-> None]

from_reference_uri_no_uri(reference_uri, id) ==
  [appInstanceId |-> Some(id), referenceURI |-> None, appLocation |-> None]

from_reference_uri(reference_uri, id) ==
  [appInstanceId |-> Some(id),
   referenceURI |-> Some(reference_uri),
   appLocation |-> None]

\* self.app_contexts.insert(app_context.contextId.clone().unwrap(), app_context.clone())
insert_context_by_instance_id(m, c) ==
  MapInsert(m, Unwrap(c.appInfo.userAppInstanceInfo[1].appInstanceId), c)

insert_context(m, c) == MapInsert(m, Unwrap(c.contextId), c)

\* The outcome of a call: what it returns, the caller's object and the map after
\* it, and the number of identifiers it drew.
Outcome(r, c, m, d) == [ret |-> r, app_context |-> c, app_contexts |-> m, drawn |-> d]

new_context_assign_before_resolve(self, c, n) ==
  LET reference_uri == find_reference_uri(self, c.appInfo.appDId)
      c1 == [c EXCEPT !.contextId = Some(new_v4_simple(self, n, 1))]
      c2 == [c1 EXCEPT !.appInfo.userAppInstanceInfo =
               Append(@, from_reference_uri(Unwrap(reference_uri),
                                            new_v4_simple(self, n, 2)))]
  IN IF capacity_reached(self)
     THEN Outcome(max_contexts_error(self), c, self.app_contexts, 0)
     ELSE IF ~valid_request(c).ok
     THEN Outcome(valid_request(c), c, self.app_contexts, 0)
     ELSE IF IsNone(reference_uri)
     THEN Outcome(no_reference_uri_error(c.appInfo.appDId), c1, self.app_contexts, 1)
     ELSE Outcome(Ok, c2, insert_context(self.app_contexts, c2), 2)

new_context_validate_first(self, c, n) ==
  LET reference_uri == find_reference_uri(self, c.appInfo.appDId)
      c1 == [c EXCEPT !.contextId = Some(new_v4_simple(self, n, 1))]
      c2 == [c1 EXCEPT !.appInfo.userAppInstanceInfo =
               Append(@, from_reference_uri(Unwrap(reference_uri),
                                            new_v4_simple(self, n, 2)))]
  IN IF ~valid_request(c).ok
     THEN Outcome(valid_request(c), c, self.app_contexts, 0)
     ELSE IF capacity_reached(self)
     THEN Outcome(max_contexts_error(self), c, self.app_contexts, 0)
     ELSE IF IsNone(reference_uri)
     THEN Outcome(no_reference_uri_error(c.appInfo.appDId), c, self.app_contexts, 0)
     ELSE Outcome(Ok, c2, insert_context(self.app_contexts, c2), 2)

new_context(self, c, n) ==
  LET reference_uri == find_reference_uri(self, c.appInfo.appDId)
      c1 == [c EXCEPT !.contextId = Some(new_v4_simple(self, n, 1))]
      c2 == [c1 EXCEPT !.appInfo.userAppInstanceInfo =
               Append(@, from_reference_uri(Unwrap(reference_uri),
                                            new_v4_simple(self, n, 2)))]
  IN IF capacity_reached(self)
     THEN Outcome(max_contexts_error(self), c, self.app_contexts, 0)
     ELSE IF ~valid_request(c).ok
     THEN Outcome(valid_request(c), c, self.app_contexts, 0)
     ELSE IF IsNone(reference_uri)
     THEN Outcome(no_reference_uri_error(c.appInfo.appDId), c, self.app_contexts, 0)
     ELSE Outcome(Ok, c2, insert_context(self.app_contexts, c2), 2)

not_found_error(context_id) == Err("context ID not found: " \o context_id)

del_context_keeps_entry(self, context_id) ==
  IF context_id \in DOMAIN self.app_contexts
  THEN [ret |-> Ok, app_contexts |-> self.app_contexts]
  ELSE [ret |-> not_found_error(context_id), app_contexts |-> self.app_contexts]

del_context_absent_is_ok(self, context_id) ==
  [ret |-> Ok, app_contexts |-> MapRemove(self.app_contexts, context_id)]

del_context(self, context_id) ==
  IF context_id \in DOMAIN self.app_contexts
  THEN [ret |-> Ok, app_contexts |-> MapRemove(self.app_contexts, context_id)]
  ELSE [ret |-> not_found_error(context_id), app_contexts |-> self.app_contexts]

get_context_any(self, context_id) ==
  IF self.app_contexts # EmptyMap
  THEN [ret |-> Ok,
        context |-> Some(self.app_contexts[CHOOSE k \in DOMAIN self.app_contexts : TRUE])]
  ELSE [ret |-> not_found_error(context_id), context |-> None]

get_context(self, context_id) ==
  IF context_id \in DOMAIN self.app_contexts
  THEN [ret |-> Ok, context |-> Some(self.app_contexts[context_id])]
  ELSE [ret |-> not_found_error(context_id), context |-> None]

\* AppContext::identical_except_callback_reference: equality of every field but
\* callbackReference.
identical_except_callback_reference(x, y) ==
  [x EXCEPT !.callbackReference = None] = [y EXCEPT !.callbackReference = None]

update_context_no_compare(self, c) ==
  IF IsSome(c.contextId)
  THEN IF Unwrap(c.contextId) \in DOMAIN self.app_contexts
       THEN Outcome(Ok, c, MapInsert(self.app_contexts, Unwrap(c.contextId), c), 0)
       ELSE Outcome(not_found_error(Unwrap(c.contextId)), c, self.app_contexts, 0)
  ELSE Outcome(Err("context ID not specified in the request"), c, self.app_contexts, 0)

update_context_assign_before_compare(self, c) ==
  IF IsSome(c.contextId)
  THEN LET context_id == Unwrap(c.contextId) IN
       IF context_id \in DOMAIN self.app_contexts
       THEN LET assigned == [self.app_contexts EXCEPT
                               ![context_id].callbackReference = c.callbackReference]
            IN IF identical_except_callback_reference(self.app_contexts[context_id], c)
               THEN Outcome(Ok, c, assigned, 0)
               ELSE Outcome(Err("AppContext in the request does not match that in the server"),
                            c, assigned, 0)
       ELSE Outcome(not_found_error(context_id), c, self.app_contexts, 0)
  ELSE Outcome(Err("context ID not specified in the request"), c, self.app_contexts, 0)

update_context_keeps_callback_if_absent(self, c) ==
  IF IsSome(c.contextId)
  THEN LET context_id == Unwrap(c.contextId) IN
       IF context_id \in DOMAIN self.app_contexts
       THEN IF identical_except_callback_reference(self.app_contexts[context_id], c)
            THEN Outcome(Ok, c,
                         IF IsSome(c.callbackReference)
                         THEN [self.app_contexts EXCEPT
                                 ![context_id].callbackReference = c.callbackReference]
                         ELSE self.app_contexts,
                         0)
            ELSE Outcome(Err("AppContext in the request does not match that in the server"),
                         c, self.app_contexts, 0)
       ELSE Outcome(not_found_error(context_id), c, self.app_contexts, 0)
  ELSE Outcome(Err("context ID not specified in the request"), c, self.app_contexts, 0)

update_context_upsert(self, c) ==
  IF IsSome(c.contextId)
  THEN LET context_id == Unwrap(c.contextId) IN
       IF context_id \in DOMAIN self.app_contexts
       THEN IF identical_except_callback_reference(self.app_contexts[context_id], c)
            THEN Outcome(Ok, c,
                         [self.app_contexts EXCEPT
                            ![context_id].callbackReference = c.callbackReference],
                         0)
            ELSE Outcome(Err("AppContext in the request does not match that in the server"),
                         c, self.app_contexts, 0)
       ELSE Outcome(Ok, c, MapInsert(self.app_contexts, context_id, c), 0)
  ELSE Outcome(Err("context ID not specified in the request"), c, self.app_contexts, 0)

update_context(self, c) ==
  IF IsSome(c.contextId)
  THEN LET context_id == Unwrap(c.contextId) IN
       IF context_id \in DOMAIN self.app_contexts
       THEN IF identical_except_callback_reference(self.app_contexts[context_id], c)
            THEN Outcome(Ok, c,
                         [self.app_contexts EXCEPT
                            ![context_id].callbackReference = c.callbackReference],
                         0)
            ELSE Outcome(Err("AppContext in the request does not match that in the server"),
                         c, self.app_contexts, 0)
       ELSE Outcome(not_found_error(context_id), c, self.app_contexts, 0)
  ELSE Outcome(Err("context ID not specified in the request"), c, self.app_contexts, 0)

\* self.app_contexts.iter().map(|x| x.0.to_string()).collect(): the keys, in the
\* map's iteration order, which is any order.
list_contexts_skip_one(self) ==
  LET keys == DOMAIN self.app_contexts
      n == IF keys = {} THEN 0 ELSE Cardinality(keys) - 1
  IN {s \in [1..n -> keys] : \A i, j \in 1..n : i # j => s[i] # s[j]}

list_contexts(self) ==
  LET keys == DOMAIN self.app_contexts
  IN {s \in [1..Cardinality(keys) -> keys] : {s[i] : i \in 1..Cardinality(keys)} = keys}

(***************************************************************************)
(* The callers' inputs.                                                    *)
(***************************************************************************)
\* A creation request as a device application sends it: no contextId, no
\* userAppInstanceInfo (messages.rs, request_from_name_provider).
Request(appDId) ==
  [contextId |-> None,
   associateDevAppId |-> "dev1",
   callbackReference |-> None,
   appLocationUpdates |-> None,
   appAutoInstantiation |-> None,
   appInfo |-> [appDId |-> appDId,
                appName |-> "A",
                appProvider |-> "P",
                appSoftVersion |-> None,
                appDVersion |-> "",
                appDescription |-> None,
                userAppInstanceInfo |-> <<>>,
                appPackageSource |-> None]]

AreaAndCountry ==
  [countryCode |-> Some("IT"),
   civicAddressElement |-> <<>>,
   area |-> Some([coordinates |-> <<<< <<0, 1>> >>>>])]

SuppliedInstanceInfo ==
  [appInstanceId |-> Some("supplied-instance"),
   referenceURI |-> Some("supplied-uri"),
   appLocation |-> None]

\* The appDIds of the requests: absent, one of the mapping, an unknown one.
AppDIds == {None, Some("1"), Some("9")}

WellFormedRequests == {Request(d) : d \in AppDIds}

\* Requests that valid_request turns down.
MalformedRequests ==
  {[Request(Some("1")) EXCEPT !.contextId = Some("not-empty-context-id")],
   [Request(Some("1")) EXCEPT !.appInfo.userAppInstanceInfo = <<SuppliedInstanceInfo>>],
   [Request(Some("1")) EXCEPT !.associateDevAppId = Long33],
   [Request(Some("1")) EXCEPT !.appInfo.userAppInstanceInfo =
      <<[SuppliedInstanceInfo EXCEPT !.appLocation = Some(AreaAndCountry)]>>],
   [Request(Some("1")) EXCEPT !.associateDevAppId = Long33, !.appInfo.appName = Long33],
   [Request(Some("1")) EXCEPT !.contextId = Some(UuidSimple(1)),
                              !.appInfo.userAppInstanceInfo = <<SuppliedInstanceInfo>>],
   [Request(Some("1")) EXCEPT !.contextId = Some(Long33),
                              !.appInfo.appDescription = Some(Long129)]}

CreateRequests == WellFormedRequests \cup MalformedRequests

\* The identifiers a caller may name: every contextId handed out so far (the
\* first of the two identifiers a creation draws), deleted ones included, and
\* a foreign one.
ContextIds ==
  {UuidSimple(k) : k \in {j \in 1..uuid_count : j % 2 = 1}}
  \cup {"not-a-valid-context-id"}

\* Copies of a context that differ from it in exactly one field other than
\* callbackReference.
Alterations(x) ==
  {[x EXCEPT !.associateDevAppId = "dev2"],
   [x EXCEPT !.appLocationUpdates = Some(TRUE)],
   [x EXCEPT !.appAutoInstantiation = Some(TRUE)],
   [x EXCEPT !.appInfo.appDId = Some("other")],
   [x EXCEPT !.appInfo.appName = "B"],
   [x EXCEPT !.appInfo.appSoftVersion = Some("1.0")],
   [x EXCEPT !.appInfo.appDescription = Some(Long129)],
   [x EXCEPT !.appInfo.userAppInstanceInfo = Append(@, SuppliedInstanceInfo)]}
  \cup
  (IF Len(x.appInfo.userAppInstanceInfo) = 0 THEN {}
   ELSE {[x EXCEPT !.appInfo.userAppInstanceInfo = <<>>],
         [x EXCEPT !.appInfo.userAppInstanceInfo[1].referenceURI = Some("other-uri")]})

\* The update requests built on one stored context: the context with another
\* callbackReference, with one more field altered, under any other identifier
\* (stored, deleted or foreign), and without a contextId.
UpdatesOf(x) ==
  {[x EXCEPT !.callbackReference = cb] : cb \in {None, Some("cb1")}}
  \cup {[a EXCEPT !.callbackReference = Some("cb2")] : a \in Alterations(x)}
  \cup {[x EXCEPT !.contextId = Some(k), !.callbackReference = Some("cb2")] :
          k \in ContextIds \ x.contextId}
  \cup {[x EXCEPT !.contextId = None]}

UpdateRequests ==
  UNION {UpdatesOf(app_contexts[k]) : k \in DOMAIN app_contexts}

(***************************************************************************)
(* The application list: messages.rs and applicationlistserver.rs.         *)
(***************************************************************************)
\* The largest catalog, in entries.
MaxCatalog == 2

\* str::find(","): the position of the first comma of s, 0 when it has none.
find_comma(s) ==
  LET at == {i \in 1..Len(s) : SubSeq(s, i, i) = ","}
  IN  IF at = {} THEN 0 ELSE CHOOSE i \in at : \A j \in at : i <= j

\* str::split(","): the pieces between the commas, one more than the commas.
RECURSIVE split(_)
split(s) ==
  LET i == find_comma(s)
  IN  IF i = 0
        THEN <<s>>
        ELSE <<SubSeq(s, 1, i - 1)>> \o split(SubSeq(s, i + 1, Len(s)))

\* The set holding only the first of the comma-separated values.
to_hash_set_first_value(v) ==
  IF IsSome(v) THEN {split(Unwrap(v))[1]} ELSE {}

\* The criterion taken as one value, commas included.
to_hash_set_unsplit(v) == v

\* ApplicationListInfo::to_hash_set.
to_hash_set(v) ==
  IF IsSome(v)
    THEN LET pieces == split(Unwrap(v))
         IN  {pieces[i] : i \in DOMAIN pieces}
    ELSE {}

app_names(self) == to_hash_set(self.appName)

app_providers(self) == to_hash_set(self.appProvider)

app_soft_versions(self) == to_hash_set(self.appSoftVersion)

vendor_ids(self) == to_hash_set(self.vendorId)

\* ApplicationListInfo::empty.
ApplicationListInfo_empty ==
  [appName |-> None, appProvider |-> None, appSoftVersion |-> None,
   serviceCont |-> None, vendorId |-> None]

\* VendorSpecificExt::empty.
VendorSpecificExt_empty == [vendorId |-> ""]

\* An entry without characteristics counted as one that requires no continuity.
service_cont_matches_by_default(self, x) ==
  \/ IsNone(self.serviceCont)
  \/ /\ IsSome(x.appInfo.appCharcs)
     /\ self.serviceCont = Unwrap(x.appInfo.appCharcs).serviceCont
  \/ /\ IsNone(x.appInfo.appCharcs)
     /\ self.serviceCont = Some(0)

\* The match on info.serviceCont inside matching_info.
service_cont_matches(self, x) ==
  IF IsSome(self.serviceCont)
    THEN IF IsSome(x.appInfo.appCharcs)
           THEN self.serviceCont = Unwrap(x.appInfo.appCharcs).serviceCont
           ELSE FALSE
    ELSE TRUE

\* An entry without an extension given a vendorId no criterion accepts.
vendor_id_or_unmatched(x) ==
  IF IsSome(x.vendorSpecificExt)
    THEN Unwrap(x.vendorSpecificExt).vendorId
    ELSE "no vendor"

\* x.vendorSpecificExt.as_ref().unwrap_or_else(|| &empty).vendorId
vendor_id_or_empty(x) ==
  IF IsSome(x.vendorSpecificExt)
    THEN Unwrap(x.vendorSpecificExt).vendorId
    ELSE VendorSpecificExt_empty.vendorId

\* ApplicationList::matching_info, self being the appList vector.
matching_info(self, i) ==
  LET names == app_names(i)
      providers == app_providers(i)
      soft_versions == app_soft_versions(i)
      vendors == vendor_ids(i)
      matches(x) ==
        /\ (names = {} \/ x.appInfo.appName \in names)
        /\ (providers = {} \/ x.appInfo.appProvider \in providers)
        /\ (soft_versions = {} \/ x.appInfo.appSoftVersion \in soft_versions)
        /\ service_cont_matches(i, x)
        /\ (vendors = {} \/ vendor_id_or_empty(x) \in vendors)
  IN  SelectSeq(self, matches)

\* Any serviceCont taken as valid.
service_cont_valid_any(s) == TRUE

service_cont_valid(s) == IsSome(s) => Unwrap(s) \in {0, 1}

\* impl Validate for ApplicationListInfo.
ValidateApplicationListInfo(self) ==
  LET valid ==
        /\ \A x \in app_names(self) : Len(x) <= 32
        /\ \A x \in app_providers(self) : Len(x) <= 32
        /\ \A x \in app_soft_versions(self) : Len(x) <= 32
        /\ service_cont_valid(self.serviceCont)
        /\ \A x \in vendor_ids(self) : Len(x) <= 32
  IN  IF valid THEN Ok ELSE Err("invalid query")

\* StaticApplicationListServer::from_file, by what reading the file gave.
from_file(read) ==
  IF read.ok
    THEN [app_list |-> Some(read.appList), last_err |-> None]
    ELSE [app_list |-> None, last_err |-> Some(read.err)]

\* StaticApplicationListServer::empty.
StaticApplicationListServer_empty == [app_list |-> None, last_err |-> None]

\* A server without a catalog failing the query.
application_list_requires_catalog(self, i) ==
  IF IsSome(self.last_err)
    THEN [ok |-> FALSE, err |-> Unwrap(self.last_err), appList |-> <<>>]
    ELSE IF IsSome(self.app_list)
           THEN [ok |-> TRUE, err |-> "",
                 appList |-> matching_info(Unwrap(self.app_list), i)]
           ELSE [ok |-> FALSE, err |-> "no application list", appList |-> <<>>]

\* The load error reported to the queries without criteria only, the others
\* being answered with an empty list.
application_list_error_if_unfiltered(self, i) ==
  IF IsSome(self.last_err) /\ i = ApplicationListInfo_empty
    THEN [ok |-> FALSE, err |-> Unwrap(self.last_err), appList |-> <<>>]
    ELSE IF IsSome(self.app_list)
           THEN [ok |-> TRUE, err |-> "",
                 appList |-> matching_info(Unwrap(self.app_list), i)]
           ELSE [ok |-> TRUE, err |-> "", appList |-> <<>>]

\* StaticApplicationListServer::application_list.
application_list(self, i) ==
  IF IsSome(self.last_err)
    THEN [ok |-> FALSE, err |-> Unwrap(self.last_err), appList |-> <<>>]
    ELSE IF IsSome(self.app_list)
           THEN [ok |-> TRUE, err |-> "",
                 appList |-> matching_info(Unwrap(self.app_list), i)]
           ELSE [ok |-> TRUE, err |-> "", appList |-> <<>>]

\* StaticApplicationListServer::status.
server_status(self) ==
  IF IsSome(self.last_err) THEN Err(Unwrap(self.last_err)) ELSE Ok

\* The response of a handler: the status code, the error detail, the body.
Response(status, detail, body) ==
  [status |-> status, detail |-> detail, body |-> body]

NoResponse == Response(0, "", None)

\* bin/lcmp.rs app_list once it holds the server: the query is validated
\* before the lock is taken, and the server's answer becomes the response.
app_list_response(r) ==
  IF r.ok
    THEN Response(200, "", Some(r.appList))
    ELSE Response(500, r.err, None)

\* The workers of the HTTP server, one handler in flight on each.
MaxHandlers == 2

Handlers == 1..MaxHandlers

\* A worker with no request in hand.
IdleHandler ==
  [pc |-> "idle", method |-> "", path |-> "", body |-> None, query |-> None,
   seen |-> EmptyMap, result |-> Ok, response |-> NoResponse]

\* No handler in flight, the mutex free.
HandlersIdle ==
  /\ handler = [h \in Handlers |-> IdleHandler]
  /\ mutex = 0

\* The server build_application_list_server("empty") constructs, not yet queried.
ListServerEmpty ==
  /\ app_list = StaticApplicationListServer_empty.app_list
  /\ last_err = StaticApplicationListServer_empty.last_err
  /\ info = None
  /\ answer = NoResponse

(***************************************************************************)
(* The state machine.                                                      *)
(***************************************************************************)
\* The reference URIs by appDId of the example configuration.
ExampleMapping == ("1" :> "uri1") @@ ("2" :> "uri2")

\* The stores build_app_context_server constructs.
Servers ==
  {default_empty(max, "URI") : max \in 0..MaxContexts}
  \cup {appdid_empty(max, ExampleMapping) : max \in 0..MaxContexts}

Call(op, request, context_id) ==
  [op |-> op, request |-> request, context_id |-> context_id]

Returned(r, c, context, ids) ==
  [ok |-> r.ok, err |-> r.err, app_context |-> c, context |-> context, ids |-> ids]

Init ==
  /\ \E s \in Servers :
       /\ max_contexts = s.max_contexts
       /\ reference_uri_default = s.reference_uri_default
       /\ reference_uri_by_appdid = s.reference_uri_by_appdid
       /\ app_contexts = s.app_contexts
  /\ uuid_count = 0
  /\ call = Call("none", None, "")
  /\ ret = Returned(Ok, None, None, <<>>)
  /\ ListServerEmpty
  /\ HandlersIdle

NewContext ==
  \E c \in CreateRequests :
    LET o == new_context(Self, c, uuid_count) IN
      /\ o.ret.ok => uuid_count + 2 <= 2 * MaxCreations
      /\ app_contexts' = o.app_contexts
      /\ uuid_count' = uuid_count + o.drawn
      /\ call' = Call("new_context", Some(c), "")
      /\ ret' = Returned(o.ret, Some(o.app_context), None, <<>>)
      /\ UNCHANGED <<conf, list_vars, handler_vars>>

DelContext ==
  \E context_id \in ContextIds :
    LET o == del_context(Self, context_id) IN
      /\ app_contexts' = o.app_contexts
      /\ call' = Call("del_context", None, context_id)
      /\ ret' = Returned(o.ret, None, None, <<>>)
      /\ UNCHANGED <<conf, uuid_count, list_vars, handler_vars>>

GetContext ==
  \E context_id \in ContextIds :
    LET o == get_context(Self, context_id) IN
      /\ call' = Call("get_context", None, context_id)
      /\ ret' = Returned(o.ret, None, o.context, <<>>)
      /\ UNCHANGED <<conf, app_contexts, uuid_count, list_vars, handler_vars>>

UpdateContext ==
  \E c \in UpdateRequests :
    LET o == update_context(Self, c) IN
      /\ app_contexts' = o.app_contexts
      /\ call' = Call("update_context", Some(c), "")
      /\ ret' = Returned(o.ret, Some(o.app_context), None, <<>>)
      /\ UNCHANGED <<conf, uuid_count, list_vars, handler_vars>>

ListContexts ==
  \E ids \in list_contexts(Self) :
    /\ call' = Call("list_contexts", None, "")
    /\ ret' = Returned(Ok, None, None, ids)
    /\ UNCHANGED <<conf, app_contexts, uuid_count, list_vars, handler_vars>>

Next ==
  \/ NewContext
  \/ DelContext
  \/ GetContext
  \/ UpdateContext
  \/ ListContexts

Spec == Init /\ [][Next]_vars

(***************************************************************************)
(* Properties of the Application-Context store.                            *)
(***************************************************************************)
\* The request of the last call (new_context, update_context).
Req(c) == Unwrap(c.request)

\* Every field but callbackReference agrees.
SameButCallback(x, y) ==
  /\ x.contextId = y.contextId
  /\ x.associateDevAppId = y.associateDevAppId
  /\ x.appLocationUpdates = y.appLocationUpdates
  /\ x.appAutoInstantiation = y.appAutoInstantiation
  /\ x.appInfo = y.appInfo

ConflictMessage == "AppContext in the request does not match that in the server"

\* C1: in every reachable state the number of stored contexts is at most
\* max_contexts.
C1_AtMostMaxContexts == MapLen(app_contexts) <= max_contexts

C1_Witness ==
  /\ call.op = "new_context" /\ ret.ok
  /\ max_contexts >= 2
  /\ MapLen(app_contexts) = max_contexts

\* C2: on a store that holds max_contexts contexts, new_context fails with the
\* maximum-active-contexts error for every request, valid or not, and the map
\* is as before.
C2_FullStoreRejects ==
  [][(call'.op = "new_context" /\ MapLen(app_contexts) = max_contexts)
       => /\ ~ret'.ok
          /\ ret'.err = "Maximum number of active contexts reached "
                          \o ToString(max_contexts)
          /\ app_contexts' = app_contexts
          /\ MapLen(app_contexts') = max_contexts]_vars

C2_Witness ==
  /\ call.op = "new_context" /\ ~ret.ok
  /\ max_contexts >= 2
  /\ MapLen(app_contexts) = max_contexts
  /\ ret.err = "Maximum number of active contexts reached " \o ToString(max_contexts)
  /\ ~ValidateAppContext(Req(call)).ok

\* C3: a successful new_context adds exactly one context, under a contextId that
\* was no key of the map, and leaves every other stored context as it was.
C3_CreationAddsOne ==
  [][(call'.op = "new_context" /\ ret'.ok)
       => LET id == Unwrap(Unwrap(ret'.app_context).contextId) IN
            /\ id \notin DOMAIN app_contexts
            /\ DOMAIN app_contexts' = DOMAIN app_contexts \cup {id}
            /\ MapLen(app_contexts') = MapLen(app_contexts) + 1
            /\ \A k \in DOMAIN app_contexts : app_contexts'[k] = app_contexts[k]]_vars

C3_Witness ==
  /\ call.op = "new_context" /\ ret.ok
  /\ MapLen(app_contexts) >= 2
  /\ uuid_count >= 6

\* C4: on a store that is not full, new_context fails for a request that carries
\* a contextId or a userAppInstanceInfo entry, also when validate accepts it.
C4_PopulatedRequestRejected ==
  [][(/\ call'.op = "new_context"
      /\ MapLen(app_contexts) # max_contexts
      /\ \/ IsSome(Req(call').contextId)
         \/ Len(Req(call').appInfo.userAppInstanceInfo) # 0)
       => /\ ~ret'.ok
          /\ ValidateAppContext(Req(call')).ok
               => ret'.err \in
                    {"contextId cannot be present in a request AppContext",
                     "userAppInstanceInfo cannot be present in a request AppContext"}]_vars

C4_Witness ==
  /\ call.op = "new_context" /\ ~ret.ok
  /\ MapLen(app_contexts) < max_contexts
  /\ IsSome(Req(call).contextId)
  /\ ValidateAppContext(Req(call)).ok
  /\ ret.err = "contextId cannot be present in a request AppContext"

\* C5: a failing new_context leaves the map as it was and the caller's request
\* object as it was passed.
C5_FailedCreationChangesNothing ==
  [][(call'.op = "new_context" /\ ~ret'.ok)
       => /\ app_contexts' = app_contexts
          /\ ret'.app_context = call'.request]_vars

C5_Witness ==
  /\ call.op = "new_context" /\ ~ret.ok
  /\ MapLen(app_contexts) >= 1
  /\ MapLen(app_contexts) < max_contexts
  /\ valid_request(Req(call)).ok
  /\ ret.err = "It was not possible to find a matching reference URI for AppDId: 9"

\* C6: after a successful new_context the caller's object is the request with
\* the assigned contextId and one userAppInstanceInfo entry (appInstanceId set,
\* referenceURI the resolved one, appLocation unset), and get_context on that
\* contextId returns a context equal to that object.
C6_RequestFilledInPlace ==
  (call.op = "new_context" /\ ret.ok)
    => LET c == Unwrap(ret.app_context)
           infos == c.appInfo.userAppInstanceInfo
       IN /\ IsSome(c.contextId)
          /\ Len(infos) = 1
          /\ IsSome(infos[1].appInstanceId)
          /\ IsSome(infos[1].referenceURI)
          /\ infos[1].referenceURI = find_reference_uri(Self, Req(call).appInfo.appDId)
          /\ IsNone(infos[1].appLocation)
          /\ [c EXCEPT !.contextId = None, !.appInfo.userAppInstanceInfo = <<>>]
               = Req(call)
          /\ get_context(Self, Unwrap(c.contextId)).ret.ok
          /\ get_context(Self, Unwrap(c.contextId)).context = Some(c)

C6_Witness ==
  /\ call.op = "new_context" /\ ret.ok
  /\ IsNone(reference_uri_default)
  /\ Unwrap(ret.app_context).appInfo.userAppInstanceInfo[1].referenceURI = Some("uri1")
  /\ MapLen(app_contexts) >= 2

\* C7: every stored context carries a contextId, equal to the key it is stored
\* under, so no two stored contexts share a contextId.
C7_ContextIdIsKey ==
  /\ \A k \in DOMAIN app_contexts : app_contexts[k].contextId = Some(k)
  /\ \A k1, k2 \in DOMAIN app_contexts :
       k1 # k2 => app_contexts[k1].contextId # app_contexts[k2].contextId

C7_Witness ==
  /\ MapLen(app_contexts) >= 2
  /\ uuid_count >= 6

C9_OnlyCallbackReferenceChanges ==
  [][\A k \in DOMAIN app_contexts \cap DOMAIN app_contexts' :
       SameButCallback(app_contexts'[k], app_contexts[k])]_vars

C9_Witness ==
  /\ call.op = "update_context" /\ ret.ok
  /\ \E k \in DOMAIN app_contexts :
       /\ Req(call).contextId = Some(k)
       /\ app_contexts[k].callbackReference = Some("cb1")
  /\ MapLen(app_contexts) >= 2

\* C10: update_context for a stored contextId with a request that differs from
\* the stored context in a field other than callbackReference fails with the
\* conflict error and leaves the whole map, that context's callbackReference
\* included, as it was.
C10_ConflictingUpdateRejected ==
  [][(/\ call'.op = "update_context"
      /\ IsSome(Req(call').contextId)
      /\ Unwrap(Req(call').contextId) \in DOMAIN app_contexts
      /\ ~SameButCallback(app_contexts[Unwrap(Req(call').contextId)], Req(call')))
       => /\ ~ret'.ok
          /\ ret'.err = ConflictMessage
          /\ app_contexts' = app_contexts]_vars

C10_Witness ==
  /\ call.op = "update_context" /\ ~ret.ok
  /\ ret.err = ConflictMessage
  /\ \E k \in DOMAIN app_contexts :
       /\ Req(call).contextId = Some(k)
       /\ Req(call).callbackReference # app_contexts[k].callbackReference
       /\ Req(call).associateDevAppId # app_contexts[k].associateDevAppId

\* The store as get_context sees it once the map is m.
SelfWith(m) == [Self EXCEPT !.app_contexts = m]

\* C11: update_context with a request that equals the stored context in every
\* field but callbackReference succeeds, stores the request's callbackReference
\* (absent when the request has none) and changes nothing else; get_context
\* then returns the stored context with that callbackReference.
C11_CallbackUpdateApplied ==
  [][(/\ call'.op = "update_context"
      /\ IsSome(Req(call').contextId)
      /\ Unwrap(Req(call').contextId) \in DOMAIN app_contexts
      /\ SameButCallback(app_contexts[Unwrap(Req(call').contextId)], Req(call')))
       => LET id == Unwrap(Req(call').contextId)
              updated == [app_contexts[id] EXCEPT
                            !.callbackReference = Req(call').callbackReference]
          IN /\ ret'.ok
             /\ DOMAIN app_contexts' = DOMAIN app_contexts
             /\ app_contexts'[id] = updated
             /\ \A k \in DOMAIN app_contexts \ {id} : app_contexts'[k] = app_contexts[k]
             /\ get_context(SelfWith(app_contexts'), id).ret.ok
             /\ get_context(SelfWith(app_contexts'), id).context = Some(updated)]_vars

C11_Witness ==
  /\ call.op = "update_context" /\ ret.ok
  /\ IsNone(Req(call).callbackReference)
  /\ IsNone(app_contexts[Unwrap(Req(call).contextId)].callbackReference)
  /\ \E k \in DOMAIN app_contexts : app_contexts[k].callbackReference = Some("cb1")

\* C12: update_context fails with 'context ID not specified' for a request
\* without contextId and with 'context ID not found' for a contextId that is no
\* key of the map, whatever the other fields; the map is as before.
C12_UpdateWithoutTarget ==
  [][(call'.op = "update_context")
       => /\ IsNone(Req(call').contextId)
               => /\ ~ret'.ok
                  /\ ret'.err = "context ID not specified in the request"
                  /\ app_contexts' = app_contexts
          /\ (/\ IsSome(Req(call').contextId)
              /\ Unwrap(Req(call').contextId) \notin DOMAIN app_contexts)
               => /\ ~ret'.ok
                  /\ ret'.err = "context ID not found: " \o Unwrap(Req(call').contextId)
                  /\ app_contexts' = app_contexts]_vars

C12_Witness ==
  /\ call.op = "update_context" /\ ~ret.ok
  /\ Req(call).contextId = Some(UuidSimple(1))
  /\ ret.err = "context ID not found: " \o UuidSimple(1)
  /\ MapLen(app_contexts) >= 1

\* C13: a successful del_context removes exactly the named context: it is no
\* key any more, get_context on it fails with not-found, the map is one smaller
\* and every other context is as it was.
C13_DeleteRemovesOne ==
  [][(call'.op = "del_context" /\ ret'.ok)
       => LET id == call'.context_id IN
            /\ id \in DOMAIN app_contexts
            /\ DOMAIN app_contexts' = DOMAIN app_contexts \ {id}
            /\ MapLen(app_contexts') = MapLen(app_contexts) - 1
            /\ \A k \in DOMAIN app_contexts' : app_contexts'[k] = app_contexts[k]
            /\ ~get_context(SelfWith(app_contexts'), id).ret.ok
            /\ get_context(SelfWith(app_contexts'), id).ret.err
                 = "context ID not found: " \o id]_vars

C13_Witness ==
  /\ call.op = "del_context" /\ ret.ok
  /\ MapLen(app_contexts) >= 1
  /\ call.context_id \notin DOMAIN app_contexts

\* C14: del_context on a contextId that is no key of the map fails with
\* not-found and leaves the map as it was.
C14_DeleteUnknownFails ==
  [][(call'.op = "del_context" /\ call'.context_id \notin DOMAIN app_contexts)
       => /\ ~ret'.ok
          /\ ret'.err = "context ID not found: " \o call'.context_id
          /\ app_contexts' = app_contexts]_vars

C14_Witness ==
  /\ call.op = "del_context" /\ ~ret.ok
  /\ call.context_id = UuidSimple(1)
  /\ MapLen(app_contexts) >= 1

\* C15: get_context returns the context stored under the contextId, fails with
\* not-found when there is none, and leaves the map as it was.
C15_GetReturnsStored ==
  [][(call'.op = "get_context")
       => /\ app_contexts' = app_contexts
          /\ IF call'.context_id \in DOMAIN app_contexts
             THEN /\ ret'.ok
                  /\ ret'.context = Some(app_contexts[call'.context_id])
             ELSE /\ ~ret'.ok
                  /\ ret'.err = "context ID not found: " \o call'.context_id
                  /\ ret'.context = None]_vars

C15_Witness ==
  /\ call.op = "get_context" /\ ret.ok
  /\ MapLen(app_contexts) >= 2
  /\ Unwrap(ret.context).callbackReference = Some("cb1")
  /\ Unwrap(ret.context).contextId = Some(call.context_id)

\* C16: list_contexts succeeds and returns each key of the map exactly once
\* and nothing else, and leaves the map as it was.
C16_ListReturnsKeys ==
  [][(call'.op = "list_contexts")
       => /\ ret'.ok
          /\ {ret'.ids[i] : i \in 1..Len(ret'.ids)} = DOMAIN app_contexts
          /\ Len(ret'.ids) = MapLen(app_contexts)
          /\ \A i, j \in 1..Len(ret'.ids) : i # j => ret'.ids[i] # ret'.ids[j]
          /\ app_contexts' = app_contexts]_vars

C16_Witness ==
  /\ call.op = "list_contexts" /\ ret.ok
  /\ Len(ret.ids) >= 2
  /\ UuidSimple(1) \notin {ret.ids[i] : i \in 1..Len(ret.ids)}
  /\ uuid_count >= 6

(***************************************************************************)
(* The application list server queried through GET /dev_app/v1/app_list.   *)
(***************************************************************************)
AppCharcs(serviceCont) == [serviceCont |-> serviceCont]

Entry(appDId, appName, appProvider, appSoftVersion, appCharcs, vendorSpecificExt) ==
  [appInfo |-> [appDId |-> appDId, appName |-> appName,
                appProvider |-> appProvider, appSoftVersion |-> appSoftVersion,
                appCharcs |-> appCharcs],
   vendorSpecificExt |-> vendorSpecificExt]

\* The entries a catalog file may hold.
Entries ==
  {Entry("1", "A", "P1", "v1", None, None),
   Entry("2", "B", "P2", "v2", Some(AppCharcs(Some(0))), Some([vendorId |-> "V"])),
   Entry("3", "A", "P2", "v2", Some(AppCharcs(None)), Some([vendorId |-> ""])),
   Entry("4", "B", "P1", "v3", Some(AppCharcs(Some(1))), Some([vendorId |-> "W"]))}

RECURSIVE SeqsUpTo(_, _)
SeqsUpTo(S, n) ==
  IF n = 0
    THEN {<<>>}
    ELSE LET shorter == SeqsUpTo(S, n - 1)
         IN  shorter \cup {Append(s, x) : s \in shorter, x \in S}

Catalogs == SeqsUpTo(Entries, MaxCatalog)

\* What File::open says of a missing file and serde_json of a file that is
\* no ApplicationList.
LoadErrors ==
  {"No such file or directory (os error 2)", "expected value at line 1 column 1"}

\* The servers build_application_list_server constructs: one per readable
\* catalog file, one per file that cannot be read or parsed, and the empty one.
ListServers ==
  {from_file([ok |-> TRUE, err |-> "", appList |-> c]) : c \in Catalogs}
  \cup {from_file([ok |-> FALSE, appList |-> <<>>, err |-> e]) : e \in LoadErrors}
  \cup {StaticApplicationListServer_empty}

\* The queries of the device applications.
Queries ==
  [appName : {None, Some("A"), Some("A,B"), Some("B,A,A"), Some("")},
   appProvider : {None, Some("P1")},
   appSoftVersion : {None},
   serviceCont : {None, Some(0), Some(1)},
   vendorId : {None, Some("V"), Some(",V")}]
  \cup [appName : {None, Some("C")},
        appProvider : {None, Some("P1")},
        appSoftVersion : {Some("v2,v3")},
        serviceCont : {None, Some(1)},
        vendorId : {None}]
  \cup {[ApplicationListInfo_empty EXCEPT !.appName = Some("A," \o Long33)],
        [ApplicationListInfo_empty EXCEPT !.serviceCont = Some(2)],
        [ApplicationListInfo_empty EXCEPT !.vendorId = Some(Long33)],
        [ApplicationListInfo_empty EXCEPT !.appProvider = Some("P1," \o SubSeq(Long33, 1, 32))]}

InitFilter ==
  /\ \E s \in ListServers :
       /\ app_list = s.app_list
       /\ last_err = s.last_err
  /\ info = None
  /\ answer = NoResponse
  /\ max_contexts = 0
  /\ reference_uri_default = None
  /\ reference_uri_by_appdid = None
  /\ app_contexts = EmptyMap
  /\ uuid_count = 0
  /\ call = Call("none", None, "")
  /\ ret = Returned(Ok, None, None, <<>>)
  /\ HandlersIdle

\* A handler that takes out of the catalog the entries it returns.
GetAppList_taking_entries ==
  \E q \in Queries :
    LET v == ValidateApplicationListInfo(q)
        server == [app_list |-> app_list, last_err |-> last_err]
        a == application_list(server, q)
        left(e) == \A i \in DOMAIN a.appList : a.appList[i] # e
    IN  /\ info' = Some(q)
        /\ answer' = IF v.ok THEN app_list_response(a)
                             ELSE Response(400, v.err, None)
        /\ app_list' = IF v.ok /\ IsSome(app_list)
                         THEN Some(SelectSeq(Unwrap(app_list), left))
                         ELSE app_list
        /\ UNCHANGED <<last_err, conf, app_contexts, uuid_count,
                       call, ret, handler_vars>>

\* bin/lcmp.rs app_list, run by one worker from the request to the response.
GetAppList ==
  \E q \in Queries :
    LET v == ValidateApplicationListInfo(q)
        server == [app_list |-> app_list, last_err |-> last_err]
    IN  /\ info' = Some(q)
        /\ answer' = IF v.ok
                       THEN app_list_response(application_list(server, q))
                       ELSE Response(400, v.err, None)
        /\ UNCHANGED <<app_list, last_err, conf, app_contexts, uuid_count,
                       call, ret, handler_vars>>

\* ApplicationListServer::status, asked of the server.
Status ==
  /\ call' = Call("status", None, "")
  /\ ret' = Returned(server_status([app_list |-> app_list, last_err |-> last_err]),
                            None, None, <<>>)
  /\ UNCHANGED <<list_vars, conf, app_contexts, uuid_count, handler_vars>>

NextFilter == GetAppList \/ Status

SpecFilter == InitFilter /\ [][NextFilter]_vars

\* v is one of the comma-separated values of the criterion s: ",v," occurs in
\* ",s,", v holding no comma.
AcceptedValue(s, v) ==
  LET t == "," \o s \o ","
      w == "," \o v \o ","
  IN  \E i \in 1..(Len(t) - Len(w) + 1) : SubSeq(t, i, i + Len(w) - 1) = w

SatisfiesString(criterion, v) ==
  IsNone(criterion) \/ AcceptedValue(Unwrap(criterion), v)

VendorIdOf(e) ==
  IF e.vendorSpecificExt = None THEN "" ELSE Unwrap(e.vendorSpecificExt).vendorId

HasContinuity(e, s) ==
  \E c \in e.appInfo.appCharcs : c.serviceCont = Some(s)

SatisfiesAll(q, e) ==
  /\ SatisfiesString(q.appName, e.appInfo.appName)
  /\ SatisfiesString(q.appProvider, e.appInfo.appProvider)
  /\ SatisfiesString(q.appSoftVersion, e.appInfo.appSoftVersion)
  /\ SatisfiesString(q.vendorId, VendorIdOf(e))
  /\ \A s \in q.serviceCont : HasContinuity(e, s)

\* The query that was answered by running the filter on a loaded catalog.
AnsweredFromCatalog ==
  /\ IsSome(info)
  /\ IsSome(app_list)
  /\ answer.status # 400

\* C19: for a loaded catalog the answer is exactly the catalog's entries that
\* satisfy every criterion of the query, in catalog order; a string criterion
\* is satisfied when it is omitted or the entry's value is one of its
\* comma-separated values.
C19_FilterIsConjunctionOfCriteria ==
  AnsweredFromCatalog =>
    LET satisfies(e) == SatisfiesAll(Unwrap(info), e)
    IN  answer = Response(200, "", Some(SelectSeq(Unwrap(app_list), satisfies)))

\* A query naming two application names and one provider, answered from a
\* two-entry catalog with the one entry that satisfies both criteria.
C19_Witness ==
  /\ AnsweredFromCatalog
  /\ Unwrap(info).appName = Some("A,B")
  /\ Unwrap(info).appProvider = Some("P1")
  /\ Unwrap(info).serviceCont = None
  /\ Len(Unwrap(app_list)) = 2
  /\ \E e \in Entries : e.appInfo.appName = "B" /\ answer.body = Some(<<e>>)

\* C20: with a serviceCont criterion in the query, the answer is the answer
\* to the same query without it, narrowed to the entries whose characteristics
\* carry that very value; an entry without characteristics, or without a
\* serviceCont in them, is never returned, the criterion being 0 included.
C20_ServiceContinuityCriterion ==
  (AnsweredFromCatalog /\ IsSome(Unwrap(info).serviceCont)) =>
    LET s == Unwrap(Unwrap(info).serviceCont)
        carries(e) == HasContinuity(e, s)
        rest == matching_info(Unwrap(app_list),
                              [Unwrap(info) EXCEPT !.serviceCont = None])
        returned == Unwrap(answer.body)
    IN  /\ answer.status = 200
        /\ returned = SelectSeq(rest, carries)
        /\ \A i \in DOMAIN returned :
             /\ IsSome(returned[i].appInfo.appCharcs)
             /\ IsSome(Unwrap(returned[i].appInfo.appCharcs).serviceCont)

\* A query for serviceCont 0 that leaves out an entry without characteristics
\* and returns the entry whose characteristics say 0.
C20_Witness ==
  /\ AnsweredFromCatalog
  /\ Unwrap(info) = [ApplicationListInfo_empty EXCEPT !.serviceCont = Some(0)]
  /\ \E i \in DOMAIN Unwrap(app_list) : IsNone(Unwrap(app_list)[i].appInfo.appCharcs)
  /\ Len(Unwrap(answer.body)) = 1
  /\ HasContinuity(Unwrap(answer.body)[1], 0)

\* C21: with a vendorId criterion in the query, the answer is the answer to
\* the same query without it, narrowed to the entries whose vendorId is one of
\* the accepted values, an entry without a vendor extension counting as one
\* whose vendorId is the empty string.
C21_VendorIdCriterion ==
  (AnsweredFromCatalog /\ IsSome(Unwrap(info).vendorId)) =>
    LET criterion == Unwrap(Unwrap(info).vendorId)
        accepted(e) ==
          IF e.vendorSpecificExt = None
            THEN AcceptedValue(criterion, "")
            ELSE AcceptedValue(criterion, Unwrap(e.vendorSpecificExt).vendorId)
        rest == matching_info(Unwrap(app_list),
                              [Unwrap(info) EXCEPT !.vendorId = None])
    IN  answer = Response(200, "", Some(SelectSeq(rest, accepted)))

\* A query accepting the empty vendorId and "V", answered from a catalog
\* with an entry that has no extension and an entry of another vendor: the
\* first is returned, the second is not.
C21_Witness ==
  /\ AnsweredFromCatalog
  /\ Unwrap(info) = [ApplicationListInfo_empty EXCEPT !.vendorId = Some(",V")]
  /\ Len(Unwrap(app_list)) = 2
  /\ \E i \in DOMAIN Unwrap(app_list) :
       \E x \in Unwrap(app_list)[i].vendorSpecificExt : x.vendorId = "W"
  /\ Len(Unwrap(answer.body)) = 1
  /\ Unwrap(answer.body)[1].vendorSpecificExt = None

\* C22: a query with no criterion is answered with the whole catalog, in
\* catalog order, and with the empty list, a success, by a server that was
\* given no catalog.
C22_NoCriterionReturnsCatalog ==
  (info = Some(ApplicationListInfo_empty) /\ IsNone(last_err)) =>
    answer = Response(200, "", Some(IF IsSome(app_list) THEN Unwrap(app_list)
                                                        ELSE <<>>))

\* The server built as "empty" has answered a query with no criterion.
C22_Witness ==
  /\ app_list = None
  /\ last_err = None
  /\ info = Some(ApplicationListInfo_empty)
  /\ answer.status = 200
  /\ answer.body = Some(<<>>)

\* The server's record of a failed load and what it answers with it.
LoadFailed(self) ==
  /\ IsSome(self.last_err)
  /\ self.app_list = None
  /\ server_status(self) = Err(Unwrap(self.last_err))
  /\ \A q \in Queries :
       application_list(self, q) =
         [ok |-> FALSE, err |-> Unwrap(self.last_err), appList |-> <<>>]

ListServer == [app_list |-> app_list, last_err |-> last_err]

\* C23: a server whose catalog failed to load keeps the load error it
\* recorded and no catalog, whatever is asked of it; after every step each
\* query, whatever its criteria, and status() fail with that same error, and
\* so did the query and the status() last answered.
C23_LoadErrorIsSticky ==
  [][IsSome(last_err) =>
       /\ last_err' = last_err
       /\ LoadFailed(ListServer)'
       /\ (call'.op = "status" => (~ret'.ok /\ ret'.err = Unwrap(last_err)))
       /\ (IsSome(info') /\ answer'.status # 400) =>
            answer' = Response(500, Unwrap(last_err), None)]_vars

\* A server built from a file that could not be read has answered a query
\* with criteria and a status() call, both with the load error.
C23_Witness ==
  /\ last_err = Some("No such file or directory (os error 2)")
  /\ call.op = "status"
  /\ ret.err = "No such file or directory (os error 2)"
  /\ IsSome(info)
  /\ Unwrap(info).appName = Some("A,B")
  /\ answer = Response(500, "No such file or directory (os error 2)", None)

\* What the handler answers to the query q asked of the server self.
AnswerOf(self, q) ==
  IF ValidateApplicationListInfo(q).ok
    THEN app_list_response(application_list(self, q))
    ELSE Response(400, "invalid query", None)

\* C24: no step changes the catalog or the recorded load error, so the query
\* just answered would be answered the same if asked again, and as it would
\* have been before the step.
C24_CatalogNeverChanges ==
  [][/\ app_list' = app_list
     /\ last_err' = last_err
     /\ IsSome(info') =>
          /\ answer' = AnswerOf(ListServer', Unwrap(info'))
          /\ AnswerOf(ListServer', Unwrap(info')) = AnswerOf(ListServer, Unwrap(info'))]_vars

\* A query answered with entries of the catalog after another query and a
\* status() call, the catalog still holding every entry.
C24_Witness ==
  /\ IsSome(app_list)
  /\ Len(Unwrap(app_list)) = 2
  /\ call.op = "status"
  /\ IsSome(info)
  /\ Unwrap(info).appProvider = Some("P1")
  /\ answer.status = 200
  /\ Len(Unwrap(answer.body)) = 1

\* Some comma-separated value of s has more than 32 characters: s has 33
\* characters in a row without a comma.
HasLongValue(s) ==
  \E i \in 1..(Len(s) - 32) : \A j \in i..(i + 32) : SubSeq(s, j, j) # ","

Malformed(q) ==
  \/ \E c \in {q.appName, q.appProvider, q.appSoftVersion, q.vendorId} :
       IsSome(c) /\ HasLongValue(Unwrap(c))
  \/ IsSome(q.serviceCont) /\ Unwrap(q.serviceCont) \notin {0, 1}

\* C25: a query with an accepted value of more than 32 characters, or with a
\* serviceCont other than 0 and 1, is answered 400 "invalid query" with no
\* entry, whatever the server holds.
C25_MalformedQueryRejected ==
  (IsSome(info) /\ Malformed(Unwrap(info))) =>
    answer = Response(400, "invalid query", None)

\* A query for serviceCont 2 rejected by a server holding a catalog.
C25_Witness ==
  /\ IsSome(app_list)
  /\ Len(Unwrap(app_list)) >= 1
  /\ info = Some([ApplicationListInfo_empty EXCEPT !.serviceCont = Some(2)])
  /\ answer.status = 400
  /\ answer.body = None

\* The query with every string criterion given as the empty string taken as
\* omitted.
WithoutEmpty(q) ==
  LET omitted(c) == IF c = Some("") THEN None ELSE c
  IN  [q EXCEPT !.appName = omitted(@), !.appProvider = omitted(@),
                !.appSoftVersion = omitted(@), !.vendorId = omitted(@)]

HasEmptyCriterion(q) ==
  Some("") \in {q.appName, q.appProvider, q.appSoftVersion, q.vendorId}

\* C31: a string criterion given as the empty string is a wildcard as an
\* omitted one is: the query is answered with the entries that satisfy the
\* query without that criterion.
C31_EmptyCriterionIsWildcard ==
  (AnsweredFromCatalog /\ HasEmptyCriterion(Unwrap(info))) =>
    LET satisfies(e) == SatisfiesAll(WithoutEmpty(Unwrap(info)), e)
    IN  answer = Response(200, "", Some(SelectSeq(Unwrap(app_list), satisfies)))

\* The set of accepted values of a criterion: what stands between two
\* neighbouring commas of ",s,"; no value for an omitted criterion.
Accepted(criterion) ==
  IF IsNone(criterion) THEN {}
  ELSE LET t == "," \o Unwrap(criterion) \o ","
           commas == {i \in 1..Len(t) : SubSeq(t, i, i) = ","}
           neighbours == {p \in commas \X commas :
                            /\ p[1] < p[2]
                            /\ \A k \in commas : ~(p[1] < k /\ k < p[2])}
       IN  {SubSeq(t, p[1] + 1, p[2] - 1) : p \in neighbours}

SameAccepted(q1, q2) ==
  /\ Accepted(q1.appName) = Accepted(q2.appName)
  /\ Accepted(q1.appProvider) = Accepted(q2.appProvider)
  /\ Accepted(q1.appSoftVersion) = Accepted(q2.appSoftVersion)
  /\ Accepted(q1.vendorId) = Accepted(q2.vendorId)
  /\ q1.serviceCont = q2.serviceCont

\* C36: the answer to a query depends only on the set of accepted values of
\* each criterion: every query whose criteria have the same sets, the values
\* written in another order or repeated, gets the same answer from the same
\* server, entries in the same order.
C36_OrderAndRepetitionIrrelevant ==
  IsSome(info) =>
    \A q \in Queries :
      SameAccepted(Unwrap(info), q) => answer = AnswerOf(ListServer, q)

\* The query for the names "B,A,A" has been answered with the two entries of
\* a catalog that holds the entry named "A" before the entry named "B", as
\* the query for "A,B" is.
C36_Witness ==
  /\ info = Some([ApplicationListInfo_empty EXCEPT !.appName = Some("B,A,A")])
  /\ IsSome(app_list)
  /\ answer.status = 200
  /\ answer.body = app_list
  /\ Len(Unwrap(app_list)) = 2
  /\ Unwrap(app_list)[1].appInfo.appName = "A"
  /\ Unwrap(app_list)[2].appInfo.appName = "B"
  /\ SameAccepted(Unwrap(info),
                  [ApplicationListInfo_empty EXCEPT !.appName = Some("A,B")])

(***************************************************************************)
(* The HTTP handlers of bin/lcmp.rs, run by the workers around the one     *)
(* Mutex<LcmpServer>.                                                      *)
(***************************************************************************)
\* The capacity of the store built from "single;1,URI".
SingleContext == 1

HttpRequest(method, path, body, query) ==
  [method |-> method, path |-> path, body |-> body, query |-> query]

\* The requests a client may send, knowing the contexts the store holds: a
\* body of None is one serde_json cannot parse. The queries that do not
\* validate are the inputs of GetAppList.
Incoming ==
  LET known == DOMAIN app_contexts
      paths == known \cup {"not-a-valid-context-id"}
      changed(k) == Some([app_contexts[k] EXCEPT !.callbackReference = Some("cb1")])
      unnamed(k) == Some([app_contexts[k] EXCEPT !.callbackReference = Some("cb1"),
                                                 !.contextId = None])
  IN  {HttpRequest("POST", "", Some(Request(None)), None),
       HttpRequest("POST", "", None, None)}
      \cup {HttpRequest("DELETE", p, None, None) : p \in paths}
      \cup {HttpRequest("GET", p, None, None) : p \in known}
      \cup {HttpRequest("PUT", k, changed(k), None) : k \in known}
      \cup {HttpRequest("PUT", "not-a-valid-context-id", changed(k), None) : k \in known}
      \cup {HttpRequest("PUT", k, unnamed(k), None) : k \in known}
      \cup {HttpRequest("GET_LIST", "", None, Some(ApplicationListInfo_empty))}

\* serde_json::from_str on a body that is no AppContext.
ParseError == "expected value at line 1 column 1"

\* A handler that takes the body of a PUT whatever the path names.
rejected_before_lock_path_unchecked(r) ==
  IF r.method \in {"POST", "PUT"} /\ IsNone(r.body)
    THEN Some(Response(400, ParseError, None))
  ELSE IF r.method = "GET_LIST" /\ ~ValidateApplicationListInfo(Unwrap(r.query)).ok
    THEN Some(Response(400, "invalid query", None))
  ELSE None

\* What a handler answers before it asks for the lock, None when it goes on
\* to lock: an unparsable body, a PUT whose body names another context than
\* its path, an invalid query.
rejected_before_lock(r) ==
  CASE r.method \in {"POST", "PUT"} /\ IsNone(r.body) ->
         Some(Response(400, ParseError, None))
    [] r.method = "PUT" /\ IsSome(r.body)
         /\ IsSome(Unwrap(r.body).contextId)
         /\ Unwrap(Unwrap(r.body).contextId) # r.path ->
         Some(Response(400, "context ID in the request does not match the path", None))
    [] r.method = "GET_LIST" /\ ~ValidateApplicationListInfo(Unwrap(r.query)).ok ->
         Some(Response(400, "invalid query", None))
    [] OTHER -> None

\* What a handler did under the lock: the result, the response, the map and
\* the UUIDs drawn.
Served(ret_, response, m, drawn) ==
  [ret |-> ret_, response |-> response, app_contexts |-> m, drawn |-> drawn]

\* app_contexts: POST /dev_app/v1/app_contexts.
handle_app_contexts(self, r, n) ==
  LET o == new_context(self, Unwrap(r.body), n)
  IN  Served(o.ret,
             IF o.ret.ok THEN Response(200, "", Some(o.app_context))
                         ELSE Response(403, o.ret.err, None),
             o.app_contexts, o.drawn)

\* delete_context: DELETE /dev_app/v1/app_contexts/{contextId}.
handle_delete_context(self, r, n) ==
  LET o == del_context(self, r.path)
  IN  Served(o.ret,
             IF o.ret.ok THEN Response(204, "", None)
                         ELSE Response(404, o.ret.err, None),
             o.app_contexts, 0)

\* update_context: PUT /dev_app/v1/app_contexts/{contextId}.
handle_update_context(self, r, n) ==
  LET o == update_context(self, Unwrap(r.body))
  IN  Served(o.ret,
             IF o.ret.ok THEN Response(204, "", None)
                         ELSE Response(403, o.ret.err, None),
             o.app_contexts, 0)

\* get_context: GET /dev_app/v1/app_contexts/{contextId}.
handle_get_context(self, r, n) ==
  LET o == get_context(self, r.path)
  IN  Served(o.ret,
             IF o.ret.ok THEN Response(200, "", o.context)
                         ELSE Response(404, o.ret.err, None),
             self.app_contexts, 0)

\* app_list: GET /dev_app/v1/app_list, the query being valid.
handle_app_list(self, r, n) ==
  LET a == application_list([app_list |-> app_list, last_err |-> last_err],
                            Unwrap(r.query))
  IN  Served([ok |-> a.ok, err |-> a.err], app_list_response(a),
             self.app_contexts, 0)

handle(self, r, n) ==
  CASE r.method = "POST" -> handle_app_contexts(self, r, n)
    [] r.method = "DELETE" -> handle_delete_context(self, r, n)
    [] r.method = "PUT" -> handle_update_context(self, r, n)
    [] r.method = "GET" -> handle_get_context(self, r, n)
    [] r.method = "GET_LIST" -> handle_app_list(self, r, n)

\* The map after an operation that read it as seen and left it as new: what
\* the operation inserted, replaced or removed, applied to the map as it is.
Written(cur, seen, new) ==
  LET removed == DOMAIN seen \ DOMAIN new
      put == {k \in DOMAIN new : k \notin DOMAIN seen \/ new[k] # seen[k]}
  IN  [k \in (DOMAIN cur \ removed) \cup put |->
         IF k \in put THEN new[k] ELSE cur[k]]

\* A mutex any worker may lock whoever holds it.
lock_never_held(m) == TRUE

\* Mutex::lock returns once no worker holds the mutex.
lock_free(m) == m = 0

\* A guard dropped only after an operation that succeeded.
drop_guard_on_success(m, r) == IF r.ok THEN 0 ELSE m

\* The MutexGuard, a temporary of the match scrutinee, is dropped at the end
\* of the match whatever the operation returned.
drop_guard(m, r) == 0

\* The clients send requests to create a context until this many contexts
\* have been created.
MaxPosts == 1

InitHandlers ==
  /\ max_contexts = default_empty(SingleContext, "URI").max_contexts
  /\ reference_uri_default = default_empty(SingleContext, "URI").reference_uri_default
  /\ reference_uri_by_appdid = default_empty(SingleContext, "URI").reference_uri_by_appdid
  /\ app_contexts = default_empty(SingleContext, "URI").app_contexts
  /\ uuid_count = 0
  /\ call = Call("none", None, "")
  /\ ret = Returned(Ok, None, None, <<>>)
  /\ ListServerEmpty
  /\ HandlersIdle

store_frame == <<conf, call, ret, list_vars>>

\* A worker takes a request; what the handler decides before it locks is
\* local to it.
Receive(h) ==
  /\ handler[h].pc = "idle"
  /\ \E r \in Incoming :
       LET early == rejected_before_lock(r)
           taken == [IdleHandler EXCEPT !.method = r.method, !.path = r.path,
                                        !.body = r.body, !.query = r.query]
       IN  /\ (r.method = "POST" /\ IsSome(r.body)) =>
                uuid_count + 2 <= 2 * MaxPosts
           /\ handler' = [handler EXCEPT ![h] =
                IF IsSome(early)
                  THEN [IdleHandler EXCEPT !.pc = "rejected", !.response = Unwrap(early)]
                  ELSE [taken EXCEPT !.pc = "waiting"]]
  /\ UNCHANGED <<mutex, app_contexts, uuid_count, store_frame>>

\* A lock that many handlers may hold at once, as a read lock would be.
Lock_shared(h) ==
  /\ handler[h].pc = "waiting"
  /\ mutex' = h
  /\ handler' = [handler EXCEPT ![h].pc = "locked", ![h].seen = app_contexts]
  /\ UNCHANGED <<app_contexts, uuid_count, store_frame>>

\* data.lcmp_server.lock().unwrap(): the handler holds the server.
Lock(h) ==
  /\ handler[h].pc = "waiting"
  /\ lock_free(mutex)
  /\ mutex' = h
  /\ handler' = [handler EXCEPT ![h].pc = "locked", ![h].seen = app_contexts]
  /\ UNCHANGED <<app_contexts, uuid_count, store_frame>>

\* The operation on the server, from what it read to what it wrote, and the
\* response built from its result.
Operate(h) ==
  /\ handler[h].pc = "locked"
  /\ LET o == handle(SelfWith(handler[h].seen), handler[h], uuid_count)
     IN  /\ app_contexts' = Written(app_contexts, handler[h].seen, o.app_contexts)
         /\ uuid_count' = uuid_count + o.drawn
         /\ handler' = [handler EXCEPT ![h] =
              [IdleHandler EXCEPT !.pc = "operated", !.result = o.ret,
                                  !.response = o.response]]
  /\ UNCHANGED <<mutex, store_frame>>

\* The end of the match: the guard is dropped, the response is returned and
\* the worker is free again.
Unlock(h) ==
  /\ handler[h].pc = "operated"
  /\ mutex' = drop_guard(mutex, handler[h].result)
  /\ handler' = [handler EXCEPT ![h] = IdleHandler]
  /\ UNCHANGED <<app_contexts, uuid_count, store_frame>>

\* The response of a handler that never locked is returned and the worker is
\* free again.
Return(h) ==
  /\ handler[h].pc = "rejected"
  /\ handler' = [handler EXCEPT ![h] = IdleHandler]
  /\ UNCHANGED <<mutex, app_contexts, uuid_count, store_frame>>

NextHandlers ==
  \E h \in Handlers :
    \/ Receive(h)
    \/ Lock(h)
    \/ Operate(h)
    \/ Unlock(h)
    \/ Return(h)

SpecHandlers == InitHandlers /\ [][NextHandlers]_vars

\* The workers keep running their handlers; a handler waiting for the mutex
\* gets it if it is free again and again.
FairSpecHandlers ==
  /\ InitHandlers
  /\ [][NextHandlers]_vars
  /\ \A h \in Handlers :
       /\ SF_vars(Lock(h))
       /\ WF_vars(Operate(h))
       /\ WF_vars(Unlock(h))
       /\ WF_vars(Return(h))

InsideOperation(h) == handler[h].pc \in {"locked", "operated"}

\* C17: at most one handler is inside an operation on the server at any
\* instant, the one that holds the mutex, and the map is still as that
\* handler's operation read it until the operation writes it.
C17_OneHandlerInsideStore ==
  /\ \A h, g \in Handlers : (InsideOperation(h) /\ InsideOperation(g)) => h = g
  /\ \A h \in Handlers : InsideOperation(h) => mutex = h
  /\ \A h \in Handlers : handler[h].pc = "locked" => handler[h].seen = app_contexts

\* One handler is inside new_context on a store that holds a context while
\* another, with a delete of that context, waits for the mutex.
C17_Witness ==
  \E h, g \in Handlers :
    /\ handler[h].pc = "locked"
    /\ handler[h].method = "POST"
    /\ MapLen(app_contexts) = 1
    /\ handler[g].pc = "waiting"
    /\ handler[g].method = "DELETE"
    /\ handler[g].path \in DOMAIN app_contexts

Pending(h) == handler[h].pc # "idle"

Answering(h) == handler[h].pc \in {"operated", "rejected"}

Long32 == SubSeq(Long33, 1, 32)

Long128 == SubSeq(Long129, 1, 128)

Polygon(coordinates) == [coordinates |-> coordinates]

\* The polygon of the tests, one with a point of three values, one with a
\* point of one value, one with no ring.
Polygons ==
  {Polygon(<< << <<0, 1>>, <<1, 1>>, <<1, 0>> >>, << <<0, 0>>, <<1, 0>> >> >>),
   Polygon(<< << <<0, 1, 2>>, <<1, 1>>, <<1, 0>> >> >>),
   Polygon(<< << <<0, 1>> >>, << <<1>> >> >>),
   Polygon(<<>>)}

CivicAddressElement(caValue) == [caType |-> 0, caValue |-> caValue]

CivicAddresses ==
  {<<>>,
   <<CivicAddressElement("anything")>>,
   <<CivicAddressElement("")>>,
   <<CivicAddressElement("anything"), CivicAddressElement("")>>,
   <<CivicAddressElement(""), CivicAddressElement("")>>}

Locations ==
  [countryCode : {None, Some(""), Some("it")},
   civicAddressElement : CivicAddresses,
   area : {None} \cup {Some(p) : p \in Polygons}]

\* The appLocation lists of the descriptors: none, the one of the tests, one
\* that breaks a rule, one that breaks two, and two that break one each.
Location(countryCode, civicAddressElement, area) ==
  [countryCode |-> countryCode, civicAddressElement |-> civicAddressElement,
   area |-> area]

AppLocations ==
  LET good == Location(None, <<>>,
                       Some(Polygon(<< << <<0, 1>>, <<1, 1>>, <<1, 0>> >> >>)))
      bad == Location(Some("it"), <<>>, None)
      worse == Location(None, <<>>, None)
  IN  {<<>>, <<good>>, <<bad>>, <<worse>>, <<bad, good, bad>>}

Descriptors ==
  [appDId : {"test_appDId"},
   appName : {"test_appName", Long32, Long33},
   appProvider : {"test_appProvider", Long33},
   appSoftVersion : {Long32, Long33},
   appDVersion : {"test_appDVersion", Long32, Long33},
   appDescription : {Long128, Long129},
   appLocation : AppLocations,
   appCharcs : {None, Some(AppCharcs(Some(1))), Some(AppCharcs(Some(2)))}]

\* The AppInfoContext of requests: with one field over its ceiling, with two,
\* with instance information whose location breaks a rule, or two.
InfoContexts ==
  LET a == Request(None).appInfo
  IN  {a,
       [a EXCEPT !.appName = Long33],
       [a EXCEPT !.appName = Long32, !.appSoftVersion = Some(Long33)],
       [a EXCEPT !.appProvider = Long33, !.appDescription = Some(Long129)],
       [a EXCEPT !.userAppInstanceInfo = <<SuppliedInstanceInfo>>],
       [a EXCEPT !.appName = Long33,
                 !.userAppInstanceInfo =
                   <<[SuppliedInstanceInfo EXCEPT !.appLocation = Some(AreaAndCountry)]>>],
       [a EXCEPT !.userAppInstanceInfo =
                   <<[SuppliedInstanceInfo EXCEPT
                        !.appLocation = Some(Location(None, <<>>, None))]>>]}

Contexts ==
  {[contextId |-> id, associateDevAppId |-> dev, callbackReference |-> None,
    appLocationUpdates |-> None, appAutoInstantiation |-> None, appInfo |-> a] :
     id \in {None, Some(UuidSimple(1)), Some(Long33)},
     dev \in {"1234", Long33},
     a \in InfoContexts}

Validated(op, message, result) ==
  /\ call' = Call(op, Some(message), "")
  /\ ret' = Returned(result, None, None, <<>>)
  /\ UNCHANGED <<conf, app_contexts, uuid_count, list_vars, handler_vars>>

InitValidate ==
  /\ max_contexts = 0
  /\ reference_uri_default = None
  /\ reference_uri_by_appdid = None
  /\ app_contexts = EmptyMap
  /\ uuid_count = 0
  /\ call = Call("none", None, "")
  /\ ret = Returned(Ok, None, None, <<>>)
  /\ ListServerEmpty
  /\ HandlersIdle

LocationConstraintsValidate ==
  \E l \in Locations :
    Validated("LocationConstraints::validate", l, ValidateLocationConstraints(l))

AppInfoListValidate ==
  \E a \in Descriptors :
    Validated("AppInfoList::validate", a, ValidateAppInfoList(a))

AppInfoContextValidate ==
  \E a \in InfoContexts :
    Validated("AppInfoContext::validate", a, ValidateAppInfoContext(a))

AppContextValidate ==
  \E c \in Contexts :
    Validated("AppContext::validate", c, ValidateAppContext(c))

AppContextValidRequest ==
  \E c \in Contexts :
    Validated("AppContext::valid_request", c, valid_request(c))

NextValidate ==
  \/ LocationConstraintsValidate
  \/ AppInfoListValidate
  \/ AppInfoContextValidate
  \/ AppContextValidate
  \/ AppContextValidRequest

SpecValidate == InitValidate /\ [][NextValidate]_vars

(***************************************************************************)
(* Claims on the validation of the messages.                               *)
(***************************************************************************)
EveryPointHasTwoValues(p) ==
  \A i \in 1..Len(p.coordinates) :
    \A j \in 1..Len(p.coordinates[i]) : Len(p.coordinates[i][j]) = 2

AbsentOrEmpty(s) == s = None \/ s = Some("")

\* C27: LocationConstraints.validate succeeds exactly when either the area is
\* set, the countryCode is absent or empty, there is no civic element and
\* every point of every ring has exactly two values, or the area is absent,
\* the countryCode is present and non-empty and there is at least one civic
\* element, each with a non-empty value.
C27_LocationConstraintsRule ==
  call.op = "LocationConstraints::validate" =>
    LET l == Unwrap(call.request)
    IN  ret.ok <=>
          \/ /\ IsSome(l.area)
             /\ AbsentOrEmpty(l.countryCode)
             /\ l.civicAddressElement = <<>>
             /\ EveryPointHasTwoValues(Unwrap(l.area))
          \/ /\ IsNone(l.area)
             /\ ~AbsentOrEmpty(l.countryCode)
             /\ l.civicAddressElement # <<>>
             /\ \A i \in 1..Len(l.civicAddressElement) :
                  l.civicAddressElement[i].caValue # ""

\* C27, as far as it goes when an area is never given with a countryCode of "".
C27_RuleOutsideEmptyCountryWithArea ==
  (call.op = "LocationConstraints::validate"
     /\ ~(IsSome(Unwrap(call.request).area)
            /\ Unwrap(call.request).countryCode = Some(""))) =>
    C27_LocationConstraintsRule

\* The number of rules a message breaks, each rule counted apart from the
\* others: the checks of the message's own fields and those of every element
\* nested in it.
RECURSIVE Sum(_)
Sum(counts) == IF Len(counts) = 0 THEN 0 ELSE counts[1] + Sum(Tail(counts))

Broken(rule) == IF rule THEN 1 ELSE 0

BrokenByPolygon(p) == Broken(~EveryPointHasTwoValues(p))

BrokenByCivicAddressElement(c) == Broken(c.caValue = "")

BrokenByLocationConstraints(l) ==
  IF IsSome(l.area)
  THEN Broken(IsSome(l.countryCode) \/ l.civicAddressElement # <<>>)
         + BrokenByPolygon(Unwrap(l.area))
  ELSE Broken(AbsentOrEmpty(l.countryCode))
         + Broken(l.civicAddressElement = <<>>)
         + Sum([i \in 1..Len(l.civicAddressElement) |->
                  BrokenByCivicAddressElement(l.civicAddressElement[i])])

BrokenByAppCharcs(a) == Broken(a.serviceCont \notin {None, Some(0), Some(1)})

BrokenByAppInfoList(a) ==
  Broken(Len(a.appName) > 32) + Broken(Len(a.appProvider) > 32)
    + Broken(Len(a.appSoftVersion) > 32) + Broken(Len(a.appDescription) > 128)
    + Sum([i \in 1..Len(a.appLocation) |->
             BrokenByLocationConstraints(a.appLocation[i])])
    + Sum([i \in 1..Cardinality(a.appCharcs) |->
             BrokenByAppCharcs(Unwrap(a.appCharcs))])

BrokenByUserAppInstanceInfo(u) ==
  IF IsSome(u.appLocation)
  THEN BrokenByLocationConstraints(Unwrap(u.appLocation)) ELSE 0

BrokenByAppInfoContext(a) ==
  Broken(Len(a.appName) > 32) + Broken(Len(a.appProvider) > 32)
    + Broken(\E v \in a.appSoftVersion : Len(v) > 32)
    + Broken(\E v \in a.appDescription : Len(v) > 128)
    + Sum([i \in 1..Len(a.userAppInstanceInfo) |->
             BrokenByUserAppInstanceInfo(a.userAppInstanceInfo[i])])

BrokenByAppContext(c) ==
  Broken(\E v \in c.contextId : Len(v) > 32)
    + Broken(Len(c.associateDevAppId) > 32)
    + BrokenByAppInfoContext(c.appInfo)

BrokenByRequest(c) ==
  BrokenByAppContext(c) + Broken(IsSome(c.contextId))
    + Broken(c.appInfo.userAppInstanceInfo # <<>>)

BrokenBy(op, m) ==
  CASE op = "LocationConstraints::validate" -> BrokenByLocationConstraints(m)
    [] op = "AppInfoList::validate" -> BrokenByAppInfoList(m)
    [] op = "AppInfoContext::validate" -> BrokenByAppInfoContext(m)
    [] op = "AppContext::validate" -> BrokenByAppContext(m)
    [] op = "AppContext::valid_request" -> BrokenByRequest(m)

\* The number of reasons a result lists: none on success, else one more than
\* the separators in the failure (no reason holds a ';').
ReasonsListed(r) ==
  IF r.ok THEN 0
  ELSE 1 + Cardinality({i \in 1..Len(r.err) : SubSeq(r.err, i, i) = ";"})

ValidationOps ==
  {"LocationConstraints::validate", "AppInfoList::validate",
   "AppInfoContext::validate", "AppContext::validate", "AppContext::valid_request"}

\* C26: validation never short-circuits: a message that breaks k distinct
\* rules, its own and those of its nested elements, gets a failure listing k
\* reasons joined by ';' (and succeeds when k is 0), for AppInfoList,
\* AppInfoContext, AppContext, LocationConstraints and valid_request.
C26_EveryBrokenRuleListed ==
  call.op \in ValidationOps =>
    ReasonsListed(ret) = BrokenBy(call.op, Unwrap(call.request))

NestedElementsValid(a) ==
  /\ \A i \in 1..Len(a.appLocation) :
       BrokenByLocationConstraints(a.appLocation[i]) = 0
  /\ \A c \in a.appCharcs : BrokenByAppCharcs(c) = 0

\* C28 as first stated: validate on an application descriptor fails whenever
\* appName, appProvider, appSoftVersion or appDVersion is longer than 32
\* characters or appDescription longer than 128, and succeeds when each of
\* the five is within its ceiling and all nested elements are valid.
C28_CeilingsWithDVersion ==
  call.op = "AppInfoList::validate" =>
    LET a == Unwrap(call.request)
    IN  /\ (\/ Len(a.appName) > 32
            \/ Len(a.appProvider) > 32
            \/ Len(a.appSoftVersion) > 32
            \/ Len(a.appDVersion) > 32
            \/ Len(a.appDescription) > 128) => ~ret.ok
        /\ (/\ Len(a.appName) <= 32
            /\ Len(a.appProvider) <= 32
            /\ Len(a.appSoftVersion) <= 32
            /\ Len(a.appDVersion) <= 32
            /\ Len(a.appDescription) <= 128
            /\ NestedElementsValid(a)) => ret.ok

\* C28: validate on an application descriptor fails whenever appName,
\* appProvider or appSoftVersion is longer than 32 characters or
\* appDescription longer than 128, and succeeds when each of the four is
\* within its ceiling (32 and 128 included) and all nested elements are
\* valid, whatever the length of appDVersion.
C28_DescriptorCeilings ==
  call.op = "AppInfoList::validate" =>
    LET a == Unwrap(call.request)
    IN  /\ (\/ Len(a.appName) > 32
            \/ Len(a.appProvider) > 32
            \/ Len(a.appSoftVersion) > 32
            \/ Len(a.appDescription) > 128) => ~ret.ok
        /\ (/\ Len(a.appName) <= 32
            /\ Len(a.appProvider) <= 32
            /\ Len(a.appSoftVersion) <= 32
            /\ Len(a.appDescription) <= 128
            /\ NestedElementsValid(a)) => ret.ok

\* A descriptor with appName and appSoftVersion of 32 characters, an
\* appDescription of 128 and an appDVersion of 33 has passed validation.
C28_Witness ==
  /\ call.op = "AppInfoList::validate"
  /\ Len(Unwrap(call.request).appName) = 32
  /\ Len(Unwrap(call.request).appSoftVersion) = 32
  /\ Len(Unwrap(call.request).appDescription) = 128
  /\ Len(Unwrap(call.request).appDVersion) = 33
  /\ Unwrap(call.request).appLocation # <<>>
  /\ ret.ok

(***************************************************************************)
(* Claims on the capacity of the store.                                    *)
(***************************************************************************)
Creating(h) == handler[h].method = "POST" /\ handler[h].pc \in {"waiting", "locked"}

\* C29: handlers issuing new_context concurrently never bring the store over
\* max_contexts contexts: the operation of a creating handler succeeds only
\* if the store, as it is when the handler operates, has a free slot, and
\* then adds one context; otherwise it leaves the store as it is. With one
\* free slot at most one of the concurrent creations succeeds.
C29_ConcurrentCreationsKeepCapacity ==
  /\ [](MapLen(app_contexts) <= max_contexts)
  /\ [][\A h \in Handlers :
          (Creating(h) /\ handler'[h].pc = "operated") =>
            /\ \A g \in Handlers \ {h} : ~InsideOperation(g)
            /\ IF handler'[h].result.ok
               THEN /\ MapLen(app_contexts) < max_contexts
                    /\ MapLen(app_contexts') = MapLen(app_contexts) + 1
               ELSE app_contexts' = app_contexts]_vars

\* Of two creations issued against a store with one free slot, one has taken
\* the slot and the other has just failed with the capacity error while the
\* store holds only identifiers of the first.
C29_Witness ==
  \E h \in Handlers :
    /\ handler[h].pc = "operated"
    /\ handler[h].result =
         Err("Maximum number of active contexts reached " \o ToString(max_contexts))
    /\ handler[h].response.status = 403
    /\ MapLen(app_contexts) = max_contexts
    /\ max_contexts = 1
    /\ uuid_count = 2

\* A reference URI can be resolved for an appDId: the table has an entry for
\* it or the store has a default.
Resolvable(appDId) ==
  \/ \E d \in appDId : d \in DOMAIN reference_uri_by_appdid
  \/ reference_uri_default # None

CapacityError == "Maximum number of active contexts reached " \o ToString(max_contexts)

\* C30: new_context succeeds exactly when the store holds fewer than
\* max_contexts contexts, the request breaks no rule of valid_request and a
\* reference URI can be resolved for its appDId; so the creation that follows
\* a del_context that freed a slot of a full store succeeds if valid and
\* resolvable, and a creation on the store it filled again fails with the
\* capacity error.
C30_CreationSucceedsExactlyWhen ==
  [][call'.op = "new_context" =>
       /\ ret'.ok <=> /\ MapLen(app_contexts) < max_contexts
                      /\ BrokenByRequest(Req(call')) = 0
                      /\ Resolvable(Req(call').appInfo.appDId)
       /\ (/\ call.op = "del_context" /\ ret.ok
           /\ MapLen(app_contexts) = max_contexts - 1
           /\ BrokenByRequest(Req(call')) = 0
           /\ Resolvable(Req(call').appInfo.appDId))
            => ret'.ok /\ MapLen(app_contexts') = max_contexts
       /\ (call.op = "new_context" /\ ret.ok /\ MapLen(app_contexts) = max_contexts)
            => ~ret'.ok /\ ret'.err = CapacityError]_vars

\* A store of one slot has been filled, freed by del_context and filled
\* again, and the creation after that has failed with the capacity error.
C30_Witness ==
  /\ max_contexts = 1
  /\ uuid_count = 4
  /\ MapLen(app_contexts) = 1
  /\ call.op = "new_context"
  /\ ~ret.ok /\ ret.err = CapacityError
  /\ BrokenByRequest(Req(call)) = 0
  /\ Resolvable(Req(call).appInfo.appDId)

(***************************************************************************)
(* Claims on the identifiers of the contexts.                              *)
(***************************************************************************)
\* The contextIds the store has assigned so far: the first of the two
\* identifiers each creation has drawn.
Assigned == {UuidSimple(k) : k \in {j \in 1..uuid_count : j % 2 = 1}}

\* The contextIds that were assigned and are no longer active.
Deleted == Assigned \ DOMAIN app_contexts

NotFound(id) == "context ID not found: " \o id

\* C32: a deleted contextId is never active again: the contextIds no longer
\* active are, step after step, those of the successful del_context calls so
\* far, none ever leaving them whatever is created, and every get_context,
\* update_context or del_context with one of them fails with not-found and
\* leaves the store as it is.
C32_DeletedNeverActiveAgain ==
  [][/\ Deleted' = Deleted \cup (IF call'.op = "del_context" /\ ret'.ok
                                   THEN {call'.context_id} ELSE {})
     /\ (call'.op \in {"get_context", "del_context"} /\ call'.context_id \in Deleted)
          => /\ ~ret'.ok
             /\ ret'.err = NotFound(call'.context_id)
             /\ app_contexts' = app_contexts
     /\ (call'.op = "update_context" /\ \E id \in Req(call').contextId : id \in Deleted)
          => /\ ~ret'.ok
             /\ \A id \in Req(call').contextId : ret'.err = NotFound(id)
             /\ app_contexts' = app_contexts]_vars

\* The first context was deleted, another was created after that, and an
\* update that names the first identifier has failed with not-found.
C32_Witness ==
  /\ uuid_count = 4
  /\ UuidSimple(1) \in Deleted
  /\ UuidSimple(3) \in DOMAIN app_contexts
  /\ call.op = "update_context"
  /\ Req(call).contextId = Some(UuidSimple(1))
  /\ ~ret.ok
  /\ ret.err = NotFound(UuidSimple(1))

(***************************************************************************)
(* Claims on the update handler.                                           *)
(***************************************************************************)
Updating(h) == handler[h].method = "PUT" /\ handler[h].pc \in {"waiting", "locked"}

MismatchResponse ==
  Response(400, "context ID in the request does not match the path", None)

\* C33: an update request sent to the path of context P never modifies a
\* context other than P. No update whose body names another context than its
\* path reaches the store: the handler answers such a request 400 before it
\* asks for the lock, and while a handler holds that answer no step but
\* another handler's operation changes the store. The operation of an update
\* leaves every context but the one of its path as it was, and that of an
\* update whose body has no contextId fails with "context ID not specified
\* in the request" and changes nothing.
C33_UpdateTouchesOnlyItsPath ==
  /\ [](\A h \in Handlers :
          Updating(h) => \A id \in Unwrap(handler[h].body).contextId :
                            id = handler[h].path)
  /\ [][\A h \in Handlers :
          /\ (handler[h].pc = "idle" /\ handler'[h].response = MismatchResponse)
               => /\ handler'[h].pc = "rejected"
                  /\ app_contexts' = app_contexts
          /\ (handler[h].pc = "rejected" /\ handler'[h] # handler[h])
               => /\ handler'[h].pc = "idle"
                  /\ app_contexts' = app_contexts
          /\ (Updating(h) /\ handler'[h].pc = "operated")
               => /\ DOMAIN app_contexts' = DOMAIN app_contexts
                  /\ \A k \in DOMAIN app_contexts \ {handler[h].path} :
                       app_contexts'[k] = app_contexts[k]
                  /\ Unwrap(handler[h].body).contextId = None
                       => /\ handler'[h].result =
                               Err("context ID not specified in the request")
                          /\ handler'[h].response.status = 403
                          /\ app_contexts' = app_contexts]_vars

\* A handler holds the 400 answer to an update whose body named another
\* context than its path, the store holding a context no update has touched.
C33_Witness ==
  \E h \in Handlers :
    /\ handler[h].pc = "rejected"
    /\ handler[h].response = MismatchResponse
    /\ \E k \in DOMAIN app_contexts : app_contexts[k].callbackReference = None

InstanceInfoOf(k) == app_contexts[k].appInfo.userAppInstanceInfo

\* C34: every stored context has exactly one userAppInstanceInfo entry, with
\* an appInstanceId and a referenceURI and without appLocation, and no two
\* stored contexts have the same appInstanceId.
C34_OneInstanceInfoPerContext ==
  /\ \A k \in DOMAIN app_contexts :
       /\ Len(InstanceInfoOf(k)) = 1
       /\ InstanceInfoOf(k)[1].appInstanceId # None
       /\ InstanceInfoOf(k)[1].referenceURI # None
       /\ InstanceInfoOf(k)[1].appLocation = None
  /\ \A k, l \in DOMAIN app_contexts :
       InstanceInfoOf(k)[1].appInstanceId = InstanceInfoOf(l)[1].appInstanceId
         => k = l

\* Two contexts are stored, created before and after the deletion of a
\* third, and an update has just changed the callbackReference of one.
C34_Witness ==
  /\ MapLen(app_contexts) = 2
  /\ uuid_count = 6
  /\ call.op = "update_context" /\ ret.ok
  /\ \E k \in DOMAIN app_contexts : app_contexts[k].callbackReference = Some("cb1")

\* C35: every stored context passes validate: it breaks no length ceiling,
\* its contextId, the key it is stored under, has at most 32 characters, and
\* so it is after every creation and every update, whatever the request
\* carried.
C35_StoredContextsAreValid ==
  \A k \in DOMAIN app_contexts :
    /\ ValidateAppContext(app_contexts[k]).ok
    /\ BrokenByAppContext(app_contexts[k]) = 0
    /\ app_contexts[k].contextId = Some(k)
    /\ Len(k) <= 32

\* An update with a 129-character appDescription, naming a stored context
\* whose contextId has 32 characters, has been refused.
C35_Witness ==
  /\ call.op = "update_context" /\ ~ret.ok
  /\ Req(call).appInfo.appDescription = Some(Long129)
  /\ \E k \in DOMAIN app_contexts : Req(call).contextId = Some(k) /\ Len(k) = 32

====
